---- MODULE Spec2Model ----
(***************************************************************************)
(* Tinta4Plus: WatchdogTimer (src/WatchdogTimer.py), WacomManager          *)
(* (src/WacomManager.py) and DisplayManager (src/DisplayManager.py).       *)
(*                                                                         *)
(* The watchdog is modelled as a set of threads: caller threads that run   *)
(* reset() and cancel(), and one thread per threading.Timer object, which  *)
(* runs Timer.run and, from it, WatchdogTimer._expired and the callback.   *)
(***************************************************************************)
EXTENDS Integers, Sequences, FiniteSets, TLC

\* ------------------------------------------------------------------ bounds
\* Timer objects one watchdog creates (the constructor's and each reset()'s).
MaxTimers == 2
\* Size of the largest timeout (in seconds) handed to the constructor.
MaxTimeout == 1
\* Device lines in one `xinput list` output.
MaxLines == 2

\* Constructor arguments: the code accepts any number, negative and zero
\* included. Only whether the interval is positive changes what a Timer does.
Timeouts == {-MaxTimeout, 0, MaxTimeout}

TimerIds == 1 .. MaxTimers
\* Two threads of the supervising process call reset() and cancel().
CallerThreads == {<<"caller", 1>>, <<"caller", 2>>}
TimerThreads == {<<"timer", t>> : t \in TimerIds}
Threads == CallerThreads \cup TimerThreads
\* threading.Lock with no owner.
Free == <<"free", 0>>
\* A thread that is in neither reset() nor cancel().
Idle == [name |-> "none", pc |-> "idle"]
\* States of a started Timer thread before the check `if not self.finished.is_set()`.
PreDecision == {"waiting"}
\* The history of a timer no completed reset() or cancel() has replaced.
NotSuperseded == <<"none", "none">>

VARIABLES
    ctor,        \* "none" before WatchdogTimer(...), "constructing" inside it, then "ok" or "raised"
    timeout,     \* self.timeout
    timer,       \* self.timer: 0 is None, else the id of a Timer object
    lock,        \* self.lock: Free or the thread that holds it
    nextTimer,   \* id of the next Timer object to be created
    tpc,         \* where each Timer thread is in Timer.run / _expired
    finished,    \* Timer.finished (the Event) of each Timer object
    due,         \* the Timer's interval has elapsed: finished.wait() times out
    op,          \* each thread's position inside reset() or cancel()
    old,         \* the Timer the reset() that holds the lock found in self.timer (0: None)
    fired,       \* callback invocations begun by each Timer thread
    warnings,    \* logger.warning calls made by _expired
    uncaught,    \* Timer threads ended by an exception that left _expired
    touched,     \* history: reset() or cancel() was called after construction
    superseded,  \* history: how a completed reset()/cancel() found the timer it replaced
    cancelDone,  \* history: a cancel() has returned and no reset() was called since
    lateDecision,\* history: the timer decided to fire after a cancel() took the lock
    early,       \* history: the timer was cancelled before its interval elapsed
    gop,         \* the DisplayManager/WacomManager method called last
    garg,        \* what that call was given and what its external tools did
    gret,        \* what the call returned, or the exception that left it
    glog         \* the levels of the log entries the call made

wvars == <<ctor, timeout, timer, lock, nextTimer, tpc, finished, due, op, old,
           fired, warnings, uncaught, touched, superseded, cancelDone,
           lateDecision, early>>

gvars == <<gop, garg, gret, glog>>

vars == <<wvars, gvars>>

\* ------------------------------------------------------------ Python str
\* Strings are sequences of characters.
UpperCase ==
    <<"A", "B", "C", "D", "E", "F", "G", "H", "I", "J", "K", "L", "M",
      "N", "O", "P", "Q", "R", "S", "T", "U", "V", "W", "X", "Y", "Z">>

LowerCase ==
    <<"a", "b", "c", "d", "e", "f", "g", "h", "i", "j", "k", "l", "m",
      "n", "o", "p", "q", "r", "s", "t", "u", "v", "w", "x", "y", "z">>

Digits == <<"0", "1", "2", "3", "4", "5", "6", "7", "8", "9">>

\* The characters str.split() and str.strip() treat as whitespace.
Whitespace == {" ", "\t", "\n", "\r"}

LowerChar(c) ==
    IF \E i \in 1 .. 26 : UpperCase[i] = c
    THEN LowerCase[CHOOSE i \in 1 .. 26 : UpperCase[i] = c]
    ELSE c

\* str.lower()
Lower(s) == [i \in 1 .. Len(s) |-> LowerChar(s[i])]

\* The first index at which pat occurs in s, or 0: str.find(pat) + 1.
Find(s, pat) ==
    LET hits == {i \in 1 .. (Len(s) - Len(pat) + 1) :
                    SubSeq(s, i, i + Len(pat) - 1) = pat}
    IN  IF hits = {} THEN 0 ELSE CHOOSE i \in hits : \A j \in hits : i <= j

\* pat in s
Contains(s, pat) == Find(s, pat) # 0

\* s.split(sep)
RECURSIVE SplitOn(_, _)
SplitOn(s, sep) ==
    LET i == Find(s, sep)
    IN  IF i = 0 THEN <<s>>
        ELSE <<SubSeq(s, 1, i - 1)>>
                \o SplitOn(SubSeq(s, i + Len(sep), Len(s)), sep)

\* s.split(): the runs of non-whitespace characters.
RECURSIVE SplitWS(_)
SplitWS(s) ==
    IF s = <<>> THEN <<>>
    ELSE IF s[1] \in Whitespace THEN SplitWS(Tail(s))
    ELSE LET ends == {i \in 1 .. Len(s) : s[i] \in Whitespace}
             stop == IF ends = {} THEN Len(s) + 1
                     ELSE CHOOSE i \in ends : \A j \in ends : i <= j
         IN  <<SubSeq(s, 1, stop - 1)>> \o SplitWS(SubSeq(s, stop, Len(s)))

\* s.strip()
Strip(s) ==
    LET keep == {i \in 1 .. Len(s) : s[i] \notin Whitespace}
    IN  IF keep = {} THEN <<>>
        ELSE SubSeq(s, CHOOSE i \in keep : \A j \in keep : i <= j,
                       CHOOSE i \in keep : \A j \in keep : i >= j)

DigitValue(c) == (CHOOSE i \in 1 .. 10 : Digits[i] = c) - 1

IsDigit(c) == \E i \in 1 .. 10 : Digits[i] = c

\* The digits of int(s), after an optional sign.
IntDigits(s) == IF s # <<>> /\ s[1] \in {"+", "-"} THEN Tail(s) ELSE s

\* Whether int(s) returns rather than raising ValueError (for the texts that
\* occur here: no inner whitespace, no underscores).
IsInt(s) ==
    /\ IntDigits(s) # <<>>
    /\ \A i \in 1 .. Len(IntDigits(s)) : IsDigit(IntDigits(s)[i])

RECURSIVE DigitsValue(_)
DigitsValue(d) ==
    IF d = <<>> THEN 0
    ELSE 10 * DigitsValue(SubSeq(d, 1, Len(d) - 1)) + DigitValue(d[Len(d)])

\* int(s)
ToInt(s) ==
    IF s[1] = "-" THEN 0 - DigitsValue(IntDigits(s)) ELSE DigitsValue(IntDigits(s))

\* "\n".join(lines): the text whose split('\n') is lines.
RECURSIVE JoinLines(_)
JoinLines(lines) ==
    IF lines = <<>> THEN <<>>
    ELSE IF Len(lines) = 1 THEN lines[1]
    ELSE lines[1] \o <<"\n">> \o JoinLines(Tail(lines))

\* ----------------------------------------------------------- subprocess
\* What one launch of an external tool does: it exits with a status and
\* some output, it exceeds the timeout, or it cannot be started at all.
Exited(code, out) == [code |-> code, kind |-> "exit", stdout |-> out]
TimedOut == [code |-> 0, kind |-> "timeout", stdout |-> <<>>]
NotLaunched == [code |-> 0, kind |-> "oserror", stdout |-> <<>>]

\* The exception subprocess.run(..., check=check, timeout=...) raises, if any.
RunRaises(o, check) ==
    IF o.kind = "timeout" THEN "TimeoutExpired"
    ELSE IF o.kind = "oserror" THEN "FileNotFoundError"
    ELSE IF check /\ o.code # 0 THEN "CalledProcessError"
    ELSE "none"

\* Results of the managers' methods.
Value(kind, val) == [kind |-> kind, val |-> val]
None == Value("None", <<>>)
Bool(b) == Value("bool", <<b>>)
Raised(exc) == Value("raise", <<exc>>)
\* What a method did: its result (or the exception that left it) and the
\* levels of the log entries it made.
Outcome(ret, log) == [log |-> log, ret |-> ret]

\* ------------------------------------------------------ texts and tokens
\* "wacom"
Tok_wacom ==
    <<"w", "a", "c", "o", "m">>

\* "goodix"
Tok_goodix ==
    <<"g", "o", "o", "d", "i", "x">>

\* "touchscreen"
Tok_touchscreen ==
    <<"t", "o", "u", "c", "h", "s", "c", "r", "e", "e", "n">>

\* "finger"
Tok_finger ==
    <<"f", "i", "n", "g", "e", "r">>

\* "touch"
Tok_touch ==
    <<"t", "o", "u", "c", "h">>

\* "pen"
Tok_pen ==
    <<"p", "e", "n">>

\* "stylus"
Tok_stylus ==
    <<"s", "t", "y", "l", "u", "s">>

\* "id="
Tok_id ==
    <<"i", "d", "=">>

\* "↳"
Tok_arrow ==
    <<"↳">>

\* "connected"
Tok_connected ==
    <<"c", "o", "n", "n", "e", "c", "t", "e", "d">>

\* " connected"
Tok_sp_connected ==
    <<" ", "c", "o", "n", "n", "e", "c", "t", "e", "d">>

\* "primary"
Tok_primary ==
    <<"p", "r", "i", "m", "a", "r", "y">>

\* "x"
Tok_x ==
    <<"x">>

\* "+"
Tok_plus ==
    <<"+">>

\* "\n"
Tok_nl ==
    <<"\n">>

\* "⎡ Virtual core pointer\tid=2\t[master pointer (3)]"
XI_core ==
    <<"⎡", " ", "V", "i", "r", "t", "u", "a", "l", " ", "c", "o", "r", "e",
      " ", "p", "o", "i", "n", "t", "e", "r", "\t", "i", "d", "=", "2", "\t",
      "[", "m", "a", "s", "t", "e", "r", " ", "p", "o", "i", "n", "t", "e",
      "r", " ", "(", "3", ")", "]">>

\* "⎜   ↳ Wacom HID 52C2 Pen stylus\tid=10\t[slave  pointer  (2)]"
XI_pen ==
    <<"⎜", " ", " ", " ", "↳", " ", "W", "a", "c", "o", "m", " ", "H", "I",
      "D", " ", "5", "2", "C", "2", " ", "P", "e", "n", " ", "s", "t", "y",
      "l", "u", "s", "\t", "i", "d", "=", "1", "0", "\t", "[", "s", "l", "a",
      "v", "e", " ", " ", "p", "o", "i", "n", "t", "e", "r", " ", " ", "(",
      "2", ")", "]">>

\* "⎜   ↳ Wacom HID 52C2 Finger touch\tid=11\t[slave  pointer  (2)]"
XI_finger ==
    <<"⎜", " ", " ", " ", "↳", " ", "W", "a", "c", "o", "m", " ", "H", "I",
      "D", " ", "5", "2", "C", "2", " ", "F", "i", "n", "g", "e", "r", " ",
      "t", "o", "u", "c", "h", "\t", "i", "d", "=", "1", "1", "\t", "[", "s",
      "l", "a", "v", "e", " ", " ", "p", "o", "i", "n", "t", "e", "r", " ",
      " ", "(", "2", ")", "]">>

\* "⎜   ↳ Goodix Capacitive TouchScreen\tid=12\t[slave  pointer  (2)]"
XI_goodix ==
    <<"⎜", " ", " ", " ", "↳", " ", "G", "o", "o", "d", "i", "x", " ", "C",
      "a", "p", "a", "c", "i", "t", "i", "v", "e", " ", "T", "o", "u", "c",
      "h", "S", "c", "r", "e", "e", "n", "\t", "i", "d", "=", "1", "2", "\t",
      "[", "s", "l", "a", "v", "e", " ", " ", "p", "o", "i", "n", "t", "e",
      "r", " ", " ", "(", "2", ")", "]">>

\* "⎜   ↳ ELAN Touchscreen\tid=7\t[slave  pointer  (2)]"
XI_elan ==
    <<"⎜", " ", " ", " ", "↳", " ", "E", "L", "A", "N", " ", "T", "o", "u",
      "c", "h", "s", "c", "r", "e", "e", "n", "\t", "i", "d", "=", "7", "\t",
      "[", "s", "l", "a", "v", "e", " ", " ", "p", "o", "i", "n", "t", "e",
      "r", " ", " ", "(", "2", ")", "]">>

\* "⎜   ↳ Wacom HID 52C2\tid=13\t[slave  pointer  (2)]"
XI_wacom_plain ==
    <<"⎜", " ", " ", " ", "↳", " ", "W", "a", "c", "o", "m", " ", "H", "I",
      "D", " ", "5", "2", "C", "2", "\t", "i", "d", "=", "1", "3", "\t", "[",
      "s", "l", "a", "v", "e", " ", " ", "p", "o", "i", "n", "t", "e", "r",
      " ", " ", "(", "2", ")", "]">>

\* "SynPS/2 Synaptics TouchPad id=14"
XI_touchpad ==
    <<"S", "y", "n", "P", "S", "/", "2", " ", "S", "y", "n", "a", "p", "t",
      "i", "c", "s", " ", "T", "o", "u", "c", "h", "P", "a", "d", " ", "i",
      "d", "=", "1", "4">>

\* "Wacom Pen id="
XI_noid ==
    <<"W", "a", "c", "o", "m", " ", "P", "e", "n", " ", "i", "d", "=">>

\* "Screen 0: minimum 320 x 200, current 3120 x 1920"
XR_screen ==
    <<"S", "c", "r", "e", "e", "n", " ", "0", ":", " ", "m", "i", "n", "i",
      "m", "u", "m", " ", "3", "2", "0", " ", "x", " ", "2", "0", "0", ",",
      " ", "c", "u", "r", "r", "e", "n", "t", " ", "3", "1", "2", "0", " ",
      "x", " ", "1", "9", "2", "0">>

\* "eDP-1 connected primary 1920x1200+0+0 (normal left x axis y axis) 302mm x 189mm"
XR_edp1 ==
    <<"e", "D", "P", "-", "1", " ", "c", "o", "n", "n", "e", "c", "t", "e",
      "d", " ", "p", "r", "i", "m", "a", "r", "y", " ", "1", "9", "2", "0",
      "x", "1", "2", "0", "0", "+", "0", "+", "0", " ", "(", "n", "o", "r",
      "m", "a", "l", " ", "l", "e", "f", "t", " ", "x", " ", "a", "x", "i",
      "s", " ", "y", " ", "a", "x", "i", "s", ")", " ", "3", "0", "2", "m",
      "m", " ", "x", " ", "1", "8", "9", "m", "m">>

\* "eDP-2 connected 1200x1920+1920+0 (normal) 120mm x 190mm"
XR_edp2_on ==
    <<"e", "D", "P", "-", "2", " ", "c", "o", "n", "n", "e", "c", "t", "e",
      "d", " ", "1", "2", "0", "0", "x", "1", "9", "2", "0", "+", "1", "9",
      "2", "0", "+", "0", " ", "(", "n", "o", "r", "m", "a", "l", ")", " ",
      "1", "2", "0", "m", "m", " ", "x", " ", "1", "9", "0", "m", "m">>

\* "eDP-2 connected (normal left inverted right x axis y axis)"
XR_edp2_off ==
    <<"e", "D", "P", "-", "2", " ", "c", "o", "n", "n", "e", "c", "t", "e",
      "d", " ", "(", "n", "o", "r", "m", "a", "l", " ", "l", "e", "f", "t",
      " ", "i", "n", "v", "e", "r", "t", "e", "d", " ", "r", "i", "g", "h",
      "t", " ", "x", " ", "a", "x", "i", "s", " ", "y", " ", "a", "x", "i",
      "s", ")">>

\* "HDMI-1 disconnected (normal)"
XR_hdmi ==
    <<"H", "D", "M", "I", "-", "1", " ", "d", "i", "s", "c", "o", "n", "n",
      "e", "c", "t", "e", "d", " ", "(", "n", "o", "r", "m", "a", "l", ")">>

\* "HDMI-1 disconnected 1920x1080+0+0"
XR_hdmi_pos ==
    <<"H", "D", "M", "I", "-", "1", " ", "d", "i", "s", "c", "o", "n", "n",
      "e", "c", "t", "e", "d", " ", "1", "9", "2", "0", "x", "1", "0", "8",
      "0", "+", "0", "+", "0">>

\* "eDP-2 connected 1200+1920x0 (normal)"
XR_bad ==
    <<"e", "D", "P", "-", "2", " ", "c", "o", "n", "n", "e", "c", "t", "e",
      "d", " ", "1", "2", "0", "0", "+", "1", "9", "2", "0", "x", "0", " ",
      "(", "n", "o", "r", "m", "a", "l", ")">>

\* "   1920x1200     60.00*+"
XR_mode ==
    <<" ", " ", " ", "1", "9", "2", "0", "x", "1", "2", "0", "0", " ", " ",
      " ", " ", " ", "6", "0", ".", "0", "0", "*", "+">>

\* "eDP-1"
DN_edp1 ==
    <<"e", "D", "P", "-", "1">>

\* "eDP-2"
DN_edp2 ==
    <<"e", "D", "P", "-", "2">>

\* "HDMI-1"
DN_hdmi ==
    <<"H", "D", "M", "I", "-", "1">>

\* ---------------------------------------------------------- WacomManager
\* get_touch_devices: `'wacom' in lower_line ... elif 'goodix' ... elif
\* 'touchscreen' in lower_line or 'finger' in lower_line or 'touch' in
\* lower_line`.
IsTouchDevice(lower_line) ==
    \/ Contains(lower_line, Tok_wacom)
    \/ Contains(lower_line, Tok_goodix)
    \/ Contains(lower_line, Tok_touchscreen)
    \/ Contains(lower_line, Tok_finger)
    \/ Contains(lower_line, Tok_touch)

\* get_touch_devices: device_id = parts[1].split()[0], where parts =
\* line.split('id='); <<>> stands for the IndexError of an empty split().
DeviceId(line) ==
    LET words == SplitWS(SplitOn(line, Tok_id)[2])
    IN  IF words = <<>> THEN <<>> ELSE words[1]

\* get_touch_devices: the device name, between the arrow (if any) and 'id='.
DeviceName(line) ==
    IF Contains(line, Tok_arrow)
    THEN Strip(SplitOn(SplitOn(line, Tok_arrow)[2], Tok_id)[1])
    ELSE Strip(SplitOn(line, Tok_id)[1])

\* get_touch_devices, the branch `elif 'wacom' in device_name_lower`: a pen or
\* stylus goes to the OLED list, a finger or touch device too, and any other
\* Wacom device to neither list.
WacomPanel(name_lower) ==
    IF Contains(name_lower, Tok_pen) \/ Contains(name_lower, Tok_stylus)
    THEN "oled"
    ELSE IF Contains(name_lower, Tok_finger) \/ Contains(name_lower, Tok_touch)
    THEN "oled"
    ELSE "none"

\* get_touch_devices: the list a touch device's line is appended to
\* (device_name_lower is the whole lower-cased line).
Panel(device_name_lower) ==
    IF Contains(device_name_lower, Tok_goodix) THEN "eink"
    ELSE IF Contains(device_name_lower, Tok_wacom)
    THEN WacomPanel(device_name_lower)
    ELSE "oled"

\* The body of get_touch_devices' loop for one line: the list the line goes
\* to ("none": no list, "error": an exception is raised) and its entry.
ClassifyLine(line) ==
    IF IsTouchDevice(Lower(line)) /\ Contains(line, Tok_id)
    THEN IF DeviceId(line) = <<>>
         THEN [id |-> <<>>, name |-> <<>>, panel |-> "error"]
         ELSE [id |-> DeviceId(line), name |-> DeviceName(line),
               panel |-> Panel(Lower(line))]
    ELSE [id |-> <<>>, name |-> <<>>, panel |-> "none"]

\* The entries get_touch_devices appends to one of its lists, in line order.
RECURSIVE DevicesOf(_, _)
DevicesOf(lines, panel) ==
    IF lines = <<>> THEN <<>>
    ELSE LET c == ClassifyLine(lines[1])
         IN  (IF c.panel = panel THEN <<[id |-> c.id, name |-> c.name]>> ELSE <<>>)
                \o DevicesOf(Tail(lines), panel)

Devices(eink, oled) == Value("devices", <<[eink |-> eink, oled |-> oled]>>)

\* The logger calls of get_touch_devices' loop, in order: a debug entry after
\* every append, until a line raises, which ends the loop in the except
\* clause's logger.error.
RECURSIVE DeviceLog(_)
DeviceLog(lines) ==
    IF lines = <<>> THEN <<>>
    ELSE LET panel == ClassifyLine(lines[1]).panel
         IN  IF panel = "error" THEN <<"error">>
             ELSE (IF panel \in {"eink", "oled"} THEN <<"debug">> ELSE <<>>)
                     \o DeviceLog(Tail(lines))

\* A log with an entry of level error.
LoggedError(log) == \E i \in 1 .. Len(log) : log[i] = "error"

\* WacomManager.get_touch_devices, given what `xinput list` did.
get_touch_devices(o) ==
    IF RunRaises(o, FALSE) # "none"
    THEN Outcome(Devices(<<>>, <<>>), <<"error">>)
    ELSE LET lines == SplitOn(o.stdout, Tok_nl)
         IN  IF LoggedError(DeviceLog(lines))
             THEN Outcome(Devices(<<>>, <<>>), DeviceLog(lines))
             ELSE Outcome(Devices(DevicesOf(lines, "eink"), DevicesOf(lines, "oled")),
                          DeviceLog(lines))

\* WacomManager.set_touch_enabled, given what `xinput enable|disable` did.
set_touch_enabled(o) ==
    IF RunRaises(o, TRUE) # "none"
    THEN Outcome(Bool(FALSE), <<"error">>)
    ELSE Outcome(Bool(TRUE), <<"info">>)

\* -------------------------------------------------------- DisplayManager
\* A loop body that falls through to the next iteration.
Skip == Value("skip", <<>>)

\* The first element of a sequence of results that is not "skip", else dflt:
\* a loop whose body may return.
RECURSIVE FirstReturn(_, _)
FirstReturn(rs, dflt) ==
    IF rs = <<>> THEN dflt
    ELSE IF rs[1].kind # "skip" THEN rs[1]
    ELSE FirstReturn(Tail(rs), dflt)

\* `'x' in part and '+' in part`
LooksLikeGeometry(part) == Contains(part, Tok_x) /\ Contains(part, Tok_plus)

\* DisplayManager.get_displays, given what `xrandr --query` did.
get_displays(o) ==
    IF RunRaises(o, FALSE) # "none"
    THEN Outcome(Value("list", <<>>), <<"error">>)
    ELSE LET lines == SplitOn(o.stdout, Tok_nl)
             hit == SelectSeq(lines, LAMBDA l : Contains(l, Tok_sp_connected))
         IN  Outcome(Value("list",
                       [i \in 1 .. Len(hit) |->
                          [name |-> SplitWS(hit[i])[1],
                           primary |-> Contains(hit[i], Tok_primary)]]),
                     <<>>)

\* is_display_active's loop body for one line.
ActiveLine(display_name, line) ==
    IF Contains(line, display_name) /\ Contains(line, Tok_sp_connected)
    THEN Bool(\E i \in 1 .. Len(SplitWS(line)) : LooksLikeGeometry(SplitWS(line)[i]))
    ELSE Skip

\* DisplayManager.is_display_active, given what `xrandr --query` did.
is_display_active(display_name, o) ==
    IF RunRaises(o, FALSE) # "none"
    THEN Outcome(Bool(FALSE), <<"error">>)
    ELSE LET lines == SplitOn(o.stdout, Tok_nl)
         IN  Outcome(FirstReturn([i \in 1 .. Len(lines) |->
                                    ActiveLine(display_name, lines[i])],
                                 Bool(FALSE)),
                     <<>>)

\* DisplayManager.set_primary, given what `xrandr --output .. --primary` did.
set_primary(o) ==
    IF RunRaises(o, TRUE) # "none"
    THEN Outcome(Bool(FALSE), <<"error">>)
    ELSE Outcome(Bool(TRUE), <<"info">>)

\* DisplayManager.enable_display: `xrandr --output .. --auto` (o), then the
\* state is verified with is_display_active (q).
enable_display(display_name, o, q) ==
    IF RunRaises(o, FALSE) # "none"
    THEN Outcome(Bool(FALSE), <<"error">>)
    ELSE LET a == is_display_active(display_name, q)
         IN  IF a.ret.val = <<TRUE>>
             THEN Outcome(Bool(TRUE), a.log \o <<"info">>)
             ELSE Outcome(Bool(FALSE), a.log \o <<"error">>)

\* DisplayManager.disable_display: `xrandr --output .. --off` (o), then the
\* state is verified with is_display_active (q).
disable_display(display_name, o, q) ==
    IF RunRaises(o, FALSE) # "none"
    THEN Outcome(Bool(FALSE), <<"error">>)
    ELSE LET a == is_display_active(display_name, q)
         IN  IF a.ret.val # <<TRUE>>
             THEN Outcome(Bool(TRUE), a.log \o <<"info">>)
             ELSE Outcome(Bool(FALSE), a.log \o <<"error">>)

\* get_display_geometry: the parse of one WIDTHxHEIGHT+X+Y part; a part that
\* int() or an index rejects raises, which the method's except turns to None.
ParseGeometry(part) ==
    LET geo == SplitOn(part, Tok_plus)
        size == SplitOn(geo[1], Tok_x)
    IN  IF /\ Len(size) >= 2
           /\ IsInt(size[1])
           /\ IsInt(size[2])
           /\ IsInt(geo[2])
           /\ (Len(geo) > 2 => IsInt(geo[3]))
        THEN Value("geometry",
                   <<[height |-> ToInt(size[2]), width |-> ToInt(size[1]),
                      x |-> ToInt(geo[2]),
                      y |-> IF Len(geo) > 2 THEN ToInt(geo[3]) ELSE 0]>>)
        ELSE Value("except", <<>>)

\* get_display_geometry's loop body for one line.
GeometryLine(display_name, line) ==
    IF Contains(line, display_name) /\ Contains(line, Tok_connected)
    THEN LET parts == SplitWS(line)
         IN  FirstReturn([i \in 1 .. Len(parts) |->
                            IF LooksLikeGeometry(parts[i])
                            THEN ParseGeometry(parts[i]) ELSE Skip],
                         Skip)
    ELSE Skip

\* DisplayManager.get_display_geometry, given what `xrandr --query` did.
get_display_geometry(display_name, o) ==
    IF RunRaises(o, FALSE) # "none"
    THEN Outcome(None, <<"error">>)
    ELSE LET lines == SplitOn(o.stdout, Tok_nl)
             r == FirstReturn([i \in 1 .. Len(lines) |->
                                 GeometryLine(display_name, lines[i])],
                              Skip)
         IN  IF r.kind = "skip" THEN Outcome(None, <<"warning">>)
             ELSE IF r.kind = "except" THEN Outcome(None, <<"error">>)
             ELSE Outcome(r, <<>>)

\* DisplayManager._command_exists, given what `which <command>` did: only
\* CalledProcessError and TimeoutExpired are caught.
command_exists(o) ==
    IF RunRaises(o, TRUE) \in {"CalledProcessError", "TimeoutExpired"}
    THEN Bool(FALSE)
    ELSE IF RunRaises(o, TRUE) # "none"
    THEN Raised(RunRaises(o, TRUE))
    ELSE Bool(TRUE)

\* display_fullscreen_image: subprocess.Popen(cmd) for one viewer, inside its
\* try block: the process handle, or the failure logged and None returned by
\* the method's last line.
Launch(viewer, geometry, popen_ok, log) ==
    IF popen_ok
    THEN Outcome(Value("process", <<[geometry |-> geometry, viewer |-> viewer]>>),
                 log)
    ELSE Outcome(None, log \o <<"error">>)

\* DisplayManager.display_fullscreen_image, given whether the image file
\* exists, what `xrandr --query` did (q), what `which feh` (feh) and
\* `which imv` (imv) did, and whether Popen starts the viewer.
display_fullscreen_image(display_name, exists, q, feh, imv, popen_ok) ==
    IF ~exists THEN Outcome(None, <<"error">>)
    ELSE LET g == get_display_geometry(display_name, q)
         IN  IF g.ret.kind = "None" THEN Outcome(None, g.log \o <<"error">>)
             ELSE IF command_exists(feh).kind = "raise"
             THEN Outcome(command_exists(feh), g.log \o <<"info">>)
             ELSE IF command_exists(feh).val = <<TRUE>>
             THEN Launch("feh", g.ret.val, popen_ok, g.log \o <<"info", "info">>)
             ELSE IF command_exists(imv).kind = "raise"
             THEN Outcome(command_exists(imv), g.log \o <<"info">>)
             ELSE IF command_exists(imv).val = <<TRUE>>
             THEN Launch("imv", <<>>, popen_ok,
                         g.log \o <<"info", "info", "warning">>)
             ELSE Outcome(None, g.log \o <<"info", "error", "error", "error">>)

\* ------------------------------------------------------ threading.Timer
\* A cancel() that leaves the event unset.
CancelTimer_Forgotten(fin, t) == fin

\* Timer.cancel(): self.finished.set().
CancelTimer(fin, t) == [fin EXCEPT ![t] = TRUE]

\* Timer.run: `if not self.finished.is_set(): self.function()`.
ShouldFire(fin) == ~fin

\* Timer.run: self.finished.wait(self.interval) returns when the event is set
\* or the interval has elapsed.
WaitReturns(t) == finished[t] \/ due[t]

\* An _expired that calls the callback inside `with self.lock`.
DispatchLock_Held(t) == <<"timer", t>>

\* The lock as _expired leaves it when it calls the callback: _expired never
\* takes self.lock.
DispatchLock(t) == lock

\* ------------------------------------------------------------ WatchdogTimer
Init ==
    /\ ctor = "none"
    /\ timeout = 0
    /\ timer = 0
    /\ lock = Free
    /\ nextTimer = 1
    /\ tpc = [t \in TimerIds |-> "unborn"]
    /\ finished = [t \in TimerIds |-> FALSE]
    /\ due = [t \in TimerIds |-> FALSE]
    /\ op = [th \in Threads |-> Idle]
    /\ old = 0
    /\ fired = [t \in TimerIds |-> 0]
    /\ warnings = 0
    /\ uncaught = {}
    /\ touched = FALSE
    /\ superseded = [t \in TimerIds |-> NotSuperseded]
    /\ cancelDone = FALSE
    /\ lateDecision = [t \in TimerIds |-> FALSE]
    /\ early = [t \in TimerIds |-> FALSE]
    /\ gop = "none"
    /\ garg = <<>>
    /\ gret = None
    /\ glog = <<>>

\* self.timer = threading.Timer(self.timeout, self._expired); daemon; start().
Arm(to) ==
    /\ timer' = nextTimer
    /\ nextTimer' = nextTimer + 1
    /\ tpc' = [tpc EXCEPT ![nextTimer] = "waiting"]
    /\ due' = [due EXCEPT ![nextTimer] = to <= 0]

\* The thread that constructs the watchdog.
Constructor == <<"caller", 1>>

\* WatchdogTimer.__init__: stores its arguments unchecked and calls reset(),
\* which takes the lock, finds self.timer None, creates the Timer and starts
\* it. No other thread exists or holds the object until start(), so up to
\* there the call is one step; the constructing thread is then inside
\* reset() with the lock held and the Timer thread running.
Construct(to) ==
    /\ ctor = "none"
    /\ ctor' = "constructing"
    /\ timeout' = to
    /\ Arm(to)
    /\ lock' = Constructor
    /\ op' = [op EXCEPT ![Constructor] = [name |-> "reset", pc |-> "started"]]
    /\ UNCHANGED <<finished, fired, warnings, uncaught, touched,
                   superseded, cancelDone, lateDecision, early>>
    /\ UNCHANGED old
    /\ UNCHANGED gvars

\* A thread may call into the watchdog: a caller thread that is idle, or a
\* Timer thread from inside the callback it is running.
CanCall(th) ==
    /\ ctor = "ok"
    /\ op[th] = Idle
    /\ th \in TimerThreads => tpc[th[2]] = "callback"

\* reset() calls that have not yet created their Timer object.
PendingArms ==
    {th \in Threads : op[th].name = "reset" /\ op[th].pc \in {"acquire", "locked"}}

\* A call of reset() begins: the thread reaches `with self.lock`.
ResetCall(th) ==
    /\ CanCall(th)
    /\ nextTimer + Cardinality(PendingArms) <= MaxTimers
    /\ op' = [op EXCEPT ![th] = [name |-> "reset", pc |-> "acquire"]]
    /\ touched' = TRUE
    /\ cancelDone' = FALSE
    /\ UNCHANGED <<ctor, timeout, timer, lock, nextTimer, tpc, finished, due,
                   fired, warnings, uncaught, superseded, lateDecision, early>>
    /\ UNCHANGED old
    /\ UNCHANGED gvars

\* A call of cancel() begins: the thread reaches `with self.lock`.
CancelCall(th) ==
    /\ CanCall(th)
    /\ op' = [op EXCEPT ![th] = [name |-> "cancel", pc |-> "acquire"]]
    /\ touched' = TRUE
    /\ UNCHANGED <<ctor, timeout, timer, lock, nextTimer, tpc, finished, due,
                   fired, warnings, uncaught, superseded, cancelDone,
                   lateDecision, early>>
    /\ UNCHANGED old
    /\ UNCHANGED gvars

\* `with self.lock:` self.lock.acquire() of a non-reentrant threading.Lock.
Acquire(th) ==
    /\ op[th].pc = "acquire"
    /\ lock = Free
    /\ lock' = th
    /\ op' = [op EXCEPT ![th].pc = "locked"]
    /\ UNCHANGED <<ctor, timeout, timer, nextTimer, tpc, finished, due, fired, warnings, uncaught, touched, superseded, cancelDone,
                   lateDecision, early>>
    /\ UNCHANGED old
    /\ UNCHANGED gvars

\* The history kept when a call that replaced timer `prev` returns.
Supersede(name, prev) ==
    IF prev = 0 THEN superseded
    ELSE [superseded EXCEPT ![prev] =
            IF tpc[prev] \in PreDecision THEN <<name, "pre">> ELSE <<name, "post">>]

\* Whether cancelling timer `prev` comes before its interval has elapsed.
CancelledEarly(prev) ==
    IF prev # 0 /\ tpc[prev] \in PreDecision /\ ~finished[prev]
    THEN [early EXCEPT ![prev] = ~due[prev]]
    ELSE early

\* reset() under the lock: `if self.timer: self.timer.cancel()`, then the new
\* Timer is created, made self.timer and started. start() returns once the
\* new thread runs; the lock is still held.
ResetBody(th) ==
    /\ op[th].name = "reset"
    /\ op[th].pc = "locked"
    /\ finished' = IF timer # 0 THEN CancelTimer(finished, timer) ELSE finished
    /\ early' = CancelledEarly(timer)
    /\ old' = timer
    /\ Arm(timeout)
    /\ op' = [op EXCEPT ![th].pc = "started"]
    /\ UNCHANGED <<ctor, timeout, lock, fired, warnings, uncaught, touched,
                   superseded, cancelDone, lateDecision>>
    /\ UNCHANGED gvars

\* The `with self.lock` block of reset() ends: the lock is released and the
\* call returns (to the caller of WatchdogTimer(...) when __init__ made it).
ResetReturn(th) ==
    /\ op[th].name = "reset"
    /\ op[th].pc = "started"
    /\ lock' = Free
    /\ op' = [op EXCEPT ![th] = Idle]
    /\ superseded' = Supersede("reset", old)
    /\ old' = 0
    /\ ctor' = IF ctor = "constructing" THEN "ok" ELSE ctor
    /\ UNCHANGED <<timeout, timer, nextTimer, tpc, finished, due, fired,
                   warnings, uncaught, touched, cancelDone, lateDecision,
                   early>>
    /\ UNCHANGED gvars

\* cancel() under the lock: `if self.timer: self.timer.cancel();
\* self.timer = None`; the lock is released and the call returns.
CancelBody(th) ==
    /\ op[th].name = "cancel"
    /\ op[th].pc = "locked"
    /\ finished' = IF timer # 0 THEN CancelTimer(finished, timer) ELSE finished
    /\ early' = CancelledEarly(timer)
    /\ timer' = 0
    /\ superseded' = Supersede("cancel", timer)
    /\ cancelDone' = TRUE
    /\ lock' = Free
    /\ op' = [op EXCEPT ![th] = Idle]
    /\ UNCHANGED <<ctor, timeout, nextTimer, tpc, due, fired, warnings,
                   uncaught, touched, lateDecision>>
    /\ UNCHANGED old
    /\ UNCHANGED gvars

\* Some thread is inside cancel() with the lock taken, or cancel() has returned.
CancelUnderWay ==
    \/ cancelDone
    \/ lock # Free /\ op[lock].name = "cancel"

\* Timer.run: self.finished.wait(self.interval) returns and self.finished is
\* checked, which decides whether _expired is called; a cancelled timer sets
\* finished again and ends. (A thread whose wait has returned and one still
\* in a wait that can return are indistinguishable to every other thread.)
TimerDecide(t) ==
    /\ tpc[t] = "waiting"
    /\ WaitReturns(t)
    /\ IF ShouldFire(finished[t])
       THEN /\ tpc' = [tpc EXCEPT ![t] = "expired"]
            /\ lateDecision' = [lateDecision EXCEPT ![t] = CancelUnderWay]
            /\ UNCHANGED finished
       ELSE /\ tpc' = [tpc EXCEPT ![t] = "done"]
            /\ finished' = [finished EXCEPT ![t] = TRUE]
            /\ UNCHANGED lateDecision
    /\ UNCHANGED <<ctor, timeout, timer, lock, nextTimer, due, op, fired, warnings, uncaught, touched, superseded, cancelDone,
                   early>>
    /\ UNCHANGED old
    /\ UNCHANGED gvars

\* _expired: the call logger.warning(...) is made and returns; the callback
\* has not begun, and other threads run before it does.
Expired(t) ==
    /\ tpc[t] = "expired"
    /\ warnings' = warnings + 1
    /\ tpc' = [tpc EXCEPT ![t] = "logged"]
    /\ UNCHANGED <<ctor, timeout, timer, lock, nextTimer, finished, due, op,
                   fired, uncaught, touched, superseded, cancelDone,
                   lateDecision, early>>
    /\ UNCHANGED old
    /\ UNCHANGED gvars

\* _expired: logger.warning(...) raises. The exception leaves _expired and
\* Timer.run, self.callback() is never called, and the Timer thread ends in
\* threading's excepthook without finished.set().
WarningRaise(t) ==
    /\ tpc[t] = "expired"
    /\ tpc' = [tpc EXCEPT ![t] = "logfailed"]
    /\ uncaught' = uncaught \cup {t}
    /\ UNCHANGED <<ctor, timeout, timer, lock, nextTimer, finished, due, op,
                   fired, warnings, touched, superseded, cancelDone,
                   lateDecision, early>>
    /\ UNCHANGED old
    /\ UNCHANGED gvars

\* _expired: self.callback() is entered, with no lock taken and nothing
\* checked.
Callback(t) ==
    /\ tpc[t] = "logged"
    /\ tpc' = [tpc EXCEPT ![t] = "callback"]
    /\ fired' = [fired EXCEPT ![t] = fired[t] + 1]
    /\ lock' = DispatchLock(t)
    /\ UNCHANGED <<ctor, timeout, timer, nextTimer, finished, due, op,
                   warnings, uncaught, touched, superseded, cancelDone,
                   lateDecision, early>>
    /\ UNCHANGED old
    /\ UNCHANGED gvars

\* The callback returns; _expired returns; Timer.run sets finished and ends.
CallbackReturn(t) ==
    /\ tpc[t] = "callback"
    /\ op[<<"timer", t>>] = Idle
    /\ tpc' = [tpc EXCEPT ![t] = "done"]
    /\ finished' = [finished EXCEPT ![t] = TRUE]
    /\ UNCHANGED <<ctor, timeout, timer, lock, nextTimer, due, op, fired, warnings, uncaught, touched, superseded, cancelDone,
                   lateDecision, early>>
    /\ UNCHANGED old
    /\ UNCHANGED gvars

\* The callback raises: _expired has no try/except, so the exception leaves
\* _expired and Timer.run (which does not reach finished.set()) and ends the
\* Timer thread in threading's excepthook. Nothing is logged by the watchdog.
CallbackRaise(t) ==
    /\ tpc[t] = "callback"
    /\ op[<<"timer", t>>] = Idle
    /\ tpc' = [tpc EXCEPT ![t] = "crashed"]
    /\ uncaught' = uncaught \cup {t}
    /\ UNCHANGED <<ctor, timeout, timer, lock, nextTimer, finished, due, op,
                   fired, warnings, touched, superseded, cancelDone,
                   lateDecision, early>>
    /\ UNCHANGED old
    /\ UNCHANGED gvars

\* A Timer thread still in finished.wait(self.interval), not cancelled.
Pending(t) == tpc[t] = "waiting" /\ ~finished[t]

\* Time passes: the interval of a waiting Timer elapses (timeout seconds after
\* its start()). All Timers of one watchdog wait the same interval, so an
\* older one's elapses first.
IntervalElapses(t) ==
    /\ Pending(t)
    /\ ~due[t]
    /\ \A u \in TimerIds : (u < t /\ Pending(u)) => due[u]
    /\ due' = [due EXCEPT ![t] = TRUE]
    /\ UNCHANGED <<ctor, timeout, timer, lock, nextTimer, tpc, finished, op,
                   fired, warnings, uncaught, touched, superseded, cancelDone,
                   lateDecision, early>>
    /\ UNCHANGED old
    /\ UNCHANGED gvars

TimerStep(t) ==
    \/ TimerDecide(t)
    \/ Expired(t)
    \/ WarningRaise(t)
    \/ Callback(t)
    \/ CallbackReturn(t)
    \/ CallbackRaise(t)

Next ==
    \/ \E to \in Timeouts : Construct(to)
    \/ \E th \in Threads : ResetCall(th)
    \/ \E th \in Threads : CancelCall(th)
    \/ \E th \in Threads : Acquire(th)
    \/ \E th \in Threads : ResetBody(th)
    \/ \E th \in Threads : ResetReturn(th)
    \/ \E th \in Threads : CancelBody(th)
    \/ \E t \in TimerIds : TimerStep(t)
    \/ \E t \in TimerIds : IntervalElapses(t)

\* ------------------------------------------------- the managers' inputs
XinputLines ==
    {XI_core, XI_pen, XI_finger, XI_goodix, XI_elan, XI_wacom_plain,
     XI_touchpad, XI_noid}

\* `xinput list` outputs: up to MaxLines distinct lines.
Listings ==
    UNION {{l \in [1 .. n -> XinputLines] :
               \A i, j \in 1 .. n : l[i] = l[j] => i = j} : n \in 0 .. MaxLines}

XinputOutcomes ==
    {Exited(0, JoinLines(l)) : l \in Listings}
        \cup {Exited(1, <<>>), TimedOut, NotLaunched}

\* `xrandr --query` outputs.
XrandrTexts ==
    {JoinLines(<<XR_screen, XR_edp1, XR_mode, XR_edp2_on, XR_hdmi>>),
     JoinLines(<<XR_screen, XR_edp1, XR_mode, XR_edp2_off, XR_hdmi_pos>>),
     JoinLines(<<XR_screen, XR_bad, XR_edp2_on>>),
     JoinLines(<<XR_mode, XR_edp2_off, XR_edp2_on>>),
     <<>>}

XrandrOutcomes ==
    {Exited(0, t) : t \in XrandrTexts}
        \cup {Exited(1, <<>>), TimedOut, NotLaunched}

\* Commands whose output is not read.
CommandOutcomes == {Exited(0, <<>>), Exited(1, <<>>), TimedOut, NotLaunched}

DisplayNames == {DN_edp1, DN_edp2, DN_hdmi}

\* No manager call is under way.
NoCall == gop = "none"

GetTouchDevices ==
    \E o \in XinputOutcomes :
        /\ NoCall
        /\ gop' = "get_touch_devices"
        /\ garg' = [o |-> o]
        /\ gret' = get_touch_devices(o).ret
        /\ glog' = get_touch_devices(o).log
        /\ UNCHANGED wvars

SetTouchEnabled ==
    \E o \in CommandOutcomes, enabled \in BOOLEAN :
        /\ NoCall
        /\ gop' = "set_touch_enabled"
        /\ garg' = [enabled |-> enabled, o |-> o]
        /\ gret' = set_touch_enabled(o).ret
        /\ glog' = set_touch_enabled(o).log
        /\ UNCHANGED wvars

GetDisplays ==
    \E o \in XrandrOutcomes :
        /\ NoCall
        /\ gop' = "get_displays"
        /\ garg' = [o |-> o]
        /\ gret' = get_displays(o).ret
        /\ glog' = get_displays(o).log
        /\ UNCHANGED wvars

IsDisplayActive ==
    \E d \in DisplayNames, o \in XrandrOutcomes :
        /\ NoCall
        /\ gop' = "is_display_active"
        /\ garg' = [display_name |-> d, o |-> o]
        /\ gret' = is_display_active(d, o).ret
        /\ glog' = is_display_active(d, o).log
        /\ UNCHANGED wvars

SetPrimary ==
    \E d \in DisplayNames, o \in CommandOutcomes :
        /\ NoCall
        /\ gop' = "set_primary"
        /\ garg' = [display_name |-> d, o |-> o]
        /\ gret' = set_primary(o).ret
        /\ glog' = set_primary(o).log
        /\ UNCHANGED wvars

EnableDisplay ==
    \E d \in DisplayNames, o \in CommandOutcomes, q \in XrandrOutcomes :
        /\ NoCall
        /\ gop' = "enable_display"
        /\ garg' = [display_name |-> d, o |-> o, q |-> q]
        /\ gret' = enable_display(d, o, q).ret
        /\ glog' = enable_display(d, o, q).log
        /\ UNCHANGED wvars

DisableDisplay ==
    \E d \in DisplayNames, o \in CommandOutcomes, q \in XrandrOutcomes :
        /\ NoCall
        /\ gop' = "disable_display"
        /\ garg' = [display_name |-> d, o |-> o, q |-> q]
        /\ gret' = disable_display(d, o, q).ret
        /\ glog' = disable_display(d, o, q).log
        /\ UNCHANGED wvars

GetDisplayGeometry ==
    \E d \in DisplayNames, o \in XrandrOutcomes :
        /\ NoCall
        /\ gop' = "get_display_geometry"
        /\ garg' = [display_name |-> d, o |-> o]
        /\ gret' = get_display_geometry(d, o).ret
        /\ glog' = get_display_geometry(d, o).log
        /\ UNCHANGED wvars

CommandExists ==
    \E o \in CommandOutcomes :
        /\ NoCall
        /\ gop' = "_command_exists"
        /\ garg' = [o |-> o]
        /\ gret' = command_exists(o)
        /\ glog' = <<>>
        /\ UNCHANGED wvars

DisplayFullscreenImage ==
    \E d \in DisplayNames, exists \in BOOLEAN, q \in XrandrOutcomes,
       feh \in CommandOutcomes, imv \in CommandOutcomes, popen_ok \in BOOLEAN :
        /\ NoCall
        /\ gop' = "display_fullscreen_image"
        /\ garg' = [display_name |-> d, exists |-> exists, feh |-> feh, imv |-> imv,
                    popen_ok |-> popen_ok, q |-> q]
        /\ gret' = display_fullscreen_image(d, exists, q, feh, imv, popen_ok).ret
        /\ glog' = display_fullscreen_image(d, exists, q, feh, imv, popen_ok).log
        /\ UNCHANGED wvars

\* The caller has taken the result (or the exception); the managers keep no
\* state between calls.
Return ==
    /\ ~NoCall
    /\ gop' = "none"
    /\ garg' = <<>>
    /\ gret' = None
    /\ glog' = <<>>
    /\ UNCHANGED wvars

ManagerNext ==
    \/ GetTouchDevices
    \/ SetTouchEnabled
    \/ GetDisplays
    \/ IsDisplayActive
    \/ SetPrimary
    \/ EnableDisplay
    \/ DisableDisplay
    \/ GetDisplayGeometry
    \/ CommandExists
    \/ DisplayFullscreenImage
    \/ Return

\* ------------------------------------------------------- specifications
Spec == Init /\ [][Next]_vars

\* Time passes and Timer threads are scheduled: while some Timer's interval
\* can elapse or some Timer thread can take a step, one of them does.
TimerProgress == \E t \in TimerIds : IntervalElapses(t) \/ TimerStep(t)

LiveSpec == Spec /\ WF_vars(TimerProgress)

\* The managers, called in any order with any behaviour of their tools.
ManagerSpec == Init /\ [][ManagerNext]_vars

\* ------------------------------------------------------- watchdog claims
Started(t) == tpc[t] # "unborn"

\* Timers whose callback invocation has begun.
Fired == {t \in TimerIds : fired[t] > 0}

\* A timer that can still invoke the callback: it waits uncancelled, or it has
\* passed the check of finished and not yet entered the callback.
Live(t) == Pending(t) \/ tpc[t] \in {"expired", "logged"}

\* Every timer so far was cancelled before its interval elapsed, and the
\* current one's has not elapsed: resets spaced less than timeout apart.
NeverLate ==
    /\ ctor = "ok"
    /\ \A t \in TimerIds : Started(t) => early[t] \/ (Pending(t) /\ ~due[t])

\* C1: a reset() that returns before a pending expiry reaches the check of
\* finished (its fire decision point) keeps that expiry from ever invoking
\* the callback; and while every timer is replaced before its interval has
\* elapsed, the callback is not invoked at all.
C1_ResetBeforeDecisionPreventsFire ==
    /\ \A t \in TimerIds :
         superseded[t] = <<"reset", "pre">> =>
            fired[t] = 0 /\ tpc[t] \in {"waiting", "done"}
    /\ NeverLate => Fired = {}

\* C1 witness: the interval of a timer had elapsed (its expiry was pending),
\* a reset() returned first, and the expiry ended without the callback.
C1_Witness ==
    \E t \in TimerIds :
        /\ timeout > 0
        /\ superseded[t] = <<"reset", "pre">>
        /\ due[t]
        /\ tpc[t] = "done"
        /\ fired[t] = 0

\* C2: once cancel() has returned and no reset() was called since, a callback
\* invocation begins only for an expiry that had passed its fire decision
\* before cancel() took the lock.
C2_NoCallbackAfterCancel ==
    [][\A t \in TimerIds :
          (timeout > 0 /\ cancelDone /\ tpc[t] = "logged" /\ tpc'[t] = "callback")
             => ~lateDecision[t]]_vars

\* C3: a watchdog constructed with timeout > 0 on which reset() and cancel()
\* are never called eventually invokes the callback, and exactly once: it
\* creates no second timer and no second invocation begins.
C3_FiresExactlyOnce ==
    /\ (ctor = "ok" /\ timeout > 0) ~> (touched \/ Cardinality(Fired) = 1)
    /\ [](~touched => Cardinality(Fired) <= 1 /\ nextTimer <= 2
                      /\ \A t \in TimerIds : fired[t] <= 1)

\* C4: at most one timer of the watchdog is live at any instant.
C4_AtMostOneLiveTimer ==
    timeout > 0 => Cardinality({t \in TimerIds : Live(t)}) <= 1

\* C5: construction with timeout <= 0 fails (no timer armed, no callback);
\* with timeout > 0 it succeeds and leaves exactly one timer armed.
C5_ConstructorValidatesTimeout ==
    ctor # "none" =>
        IF timeout <= 0
        THEN ctor = "raised" /\ nextTimer = 1 /\ Fired = {}
        ELSE ctor \in {"constructing", "ok"}
                /\ (~touched => nextTimer = 2 /\ timer = 1)

\* C6: a failure of the callback does not leave the expiry handler: no Timer
\* thread is ended by the callback's exception.
C6_CallbackFailureContained ==
    timeout > 0 => \A t \in TimerIds : tpc[t] # "crashed"

\* C9: an expiry whose timer a completed reset() or cancel() has replaced
\* does not invoke the callback.
C9_SupersededExpiryDoesNotFire ==
    [][\A t \in TimerIds :
          (timeout > 0 /\ tpc[t] = "logged" /\ tpc'[t] = "callback")
             => superseded[t] = NotSuperseded]_vars

\* C10: the lock is held only by a thread inside the body of reset() or
\* cancel(), never across the callback, so a thread waiting for the lock
\* (also one calling from inside the callback) is never blocked by a running
\* callback: the lock is free or its holder can finish on its own.
C10_LockNotHeldAcrossCallback ==
    /\ lock # Free => op[lock].pc \in {"locked", "started"}
    /\ \A th \in Threads :
         op[th].pc = "acquire" =>
            \/ ENABLED Acquire(th)
            \/ lock # Free
                 /\ ENABLED (ResetBody(lock) \/ ResetReturn(lock) \/ CancelBody(lock))

\* C10 witness: a callback is running and calls reset() itself; the call has
\* taken the lock while another thread waits for it.
C10_Witness ==
    \E t \in TimerIds :
        /\ timeout > 0
        /\ tpc[t] = "callback"
        /\ lock = <<"timer", t>>
        /\ op[<<"timer", t>>] = [name |-> "reset", pc |-> "locked"]
        /\ \E th \in CallerThreads : op[th].pc = "acquire"

\* ------------------------------------------------------- manager claims
PublicMethods ==
    {"get_touch_devices", "set_touch_enabled", "get_displays",
     "is_display_active", "set_primary", "enable_display", "disable_display",
     "get_display_geometry", "display_fullscreen_image"}

\* C7: no public DisplayManager or WacomManager method raises to its caller,
\* whatever its external tools do; display_fullscreen_image returns a process
\* handle or None.
C7_ManagersNeverRaise ==
    gop \in PublicMethods =>
        /\ gret.kind # "raise"
        /\ gop = "display_fullscreen_image" => gret.kind \in {"process", "None"}

\* A line of `xinput list` that names a touch-capable device: it carries an
\* id and a wacom, goodix, touch or finger token.
TouchCapable(line) ==
    /\ Contains(line, Tok_id)
    /\ DeviceId(line) # <<>>
    /\ \/ Contains(Lower(line), Tok_wacom)
       \/ Contains(Lower(line), Tok_goodix)
       \/ Contains(Lower(line), Tok_touch)
       \/ Contains(Lower(line), Tok_finger)

\* The entry of a line is in a list.
Listed(list, line) ==
    \E i \in 1 .. Len(list) :
        list[i] = [id |-> DeviceId(line), name |-> DeviceName(line)]

\* C8: get_touch_devices puts every touch-capable device line into exactly
\* one list: the e-ink list when its name contains "goodix", else the OLED
\* list.
C8_EveryTouchDeviceInOneList ==
    (gop = "get_touch_devices" /\ ~LoggedError(glog)) =>
        LET lines == SplitOn(garg.o.stdout, Tok_nl)
            lists == gret.val[1]
        IN  \A i \in 1 .. Len(lines) :
                TouchCapable(lines[i]) =>
                    IF Contains(Lower(DeviceName(lines[i])), Tok_goodix)
                    THEN /\ Listed(lists.eink, lines[i])
                         /\ ~Listed(lists.oled, lines[i])
                    ELSE /\ Listed(lists.oled, lines[i])
                         /\ ~Listed(lists.eink, lines[i])

====
